---- MODULE Spec2Model ----
(***************************************************************************)
(* A model of the twitch-kit Telegram bot: the text chunker                *)
(* (internal/utils), the response formatter (internal/formatter), the      *)
(* data fetcher (internal/fetcher) and the conversation controller         *)
(* (internal/bot) with its update loop.                                    *)
(*                                                                         *)
(* Strings.  A Go string is modelled as a sequence of atoms.  An atom is   *)
(* either one whitespace character (" ", "\n", "\t", "\r") or a non-empty  *)
(* run of non-whitespace bytes.  The string is the concatenation of its    *)
(* atoms (Flat), its byte length the sum of the atoms' lengths (TextLen).  *)
(* strings.TrimSpace and strings.Split(_, "\n") only look at whitespace,   *)
(* so they are computed exactly on this representation.                    *)
(***************************************************************************)
EXTENDS Integers, Sequences, FiniteSets, TLC

VARIABLES
    text,        \* SplitMessage: the input string
    limit,       \* SplitMessage: the limit argument
    result,      \* SplitMessage: the returned slice of chunks
    phase,       \* "input" before SplitMessage has run, "done" after, "bot" in the bot's runs
    userState,   \* Bot.userState: map from id to UserState
    cmdViewMap,  \* Bot.cmdViewMap: the registered command names
    proc,        \* the process: "running", "fatal" (log.Fatalf), "returned" (Start returned)
    ctxDone,     \* the context given to Start is done (signal received)
    feed,        \* number of updates buffered on the updates channel
    last,        \* what the handling of the most recent update did
    hist,        \* history: per chat, what the most recent update of that chat was
    input,       \* the arguments of a function run on its own (fetcher, formatter, main)
    output,      \* what that function returned
    loop         \* Start's loop step by step: its position, the channel, the handlers

vars == <<text, limit, result, phase, userState, cmdViewMap, proc, ctxDone, feed, last, hist,
          input, output, loop>>

botVars == <<userState, cmdViewMap, proc, ctxDone, feed, last, hist>>
splitVars == <<text, limit, result, phase>>
callVars == <<input, output, loop>>

-----------------------------------------------------------------------------
(* Bounds *)

MaxTextLen == 5     \* atoms in an input of SplitMessage
MaxLimit == 4       \* largest limit handed to SplitMessage
MaxFeed == 1        \* updates buffered on the updates channel
MaxRecords == 2     \* records in a list handed to a formatter
MaxFileLines == 2   \* assignments in the local environment file
MaxArrivals == 3    \* updates that arrive while Start's loop is followed step by step

-----------------------------------------------------------------------------
(* Strings *)

Space == {" ", "\n", "\t", "\r"}

RECURSIVE TextLen(_)
TextLen(t) == IF t = <<>> THEN 0 ELSE Len(Head(t)) + TextLen(Tail(t))

RECURSIVE Flat(_)
Flat(t) == IF t = <<>> THEN "" ELSE Head(t) \o Flat(Tail(t))

RECURSIVE TrimLeft(_)
TrimLeft(t) ==
    IF t # <<>> /\ Head(t) \in Space THEN TrimLeft(Tail(t)) ELSE t

RECURSIVE TrimRight(_)
TrimRight(t) ==
    IF t # <<>> /\ t[Len(t)] \in Space THEN TrimRight(SubSeq(t, 1, Len(t) - 1)) ELSE t

\* strings.TrimSpace
TrimSpace(t) == TrimRight(TrimLeft(t))

\* strings.Split(t, "\n"): always at least one element
RECURSIVE SplitLines(_, _, _)
SplitLines(t, i, cur) ==
    IF i > Len(t) THEN <<cur>>
    ELSE IF t[i] = "\n" THEN <<cur>> \o SplitLines(t, i + 1, <<>>)
    ELSE SplitLines(t, i + 1, Append(cur, t[i]))

Split(t) == SplitLines(t, 1, <<>>)

\* strings.Join(parts, "\n")
RECURSIVE Join(_)
Join(parts) ==
    IF parts = <<>> THEN <<>>
    ELSE IF Len(parts) = 1 THEN parts[1]
    ELSE parts[1] \o <<"\n">> \o Join(Tail(parts))

-----------------------------------------------------------------------------
(* internal/utils: SplitMessage *)

\* the condition of text.go:28
ExceedsNoSeparator(currentPart, line, lim) ==
    TextLen(currentPart) + TextLen(line) > lim /\ currentPart # <<>>

\* the condition without the length of the line
ExceedsIgnoresLine(currentPart, line, lim) ==
    TextLen(currentPart) + 1 > lim /\ currentPart # <<>>

Exceeds(currentPart, line, lim) ==
    TextLen(currentPart) + TextLen(line) + 1 > lim /\ currentPart # <<>>

\* text.go:29-30: close the current part and start the next one with line
FlushDropsLine(st, line) ==
    [result |-> Append(st.result, TrimSpace(st.currentPart)), currentPart |-> <<>>]

Flush(st, line) ==
    [result |-> Append(st.result, TrimSpace(st.currentPart)), currentPart |-> line]

\* text.go:32-35: add line to the current part
Extend(st, line) ==
    [result |-> st.result,
     currentPart |-> (IF st.currentPart # <<>> THEN st.currentPart \o <<"\n">>
                      ELSE st.currentPart) \o line]

\* the loop of text.go:22-37
RECURSIVE SplitLoop(_, _, _, _)
SplitLoop(lines, i, st, lim) ==
    IF i > Len(lines) THEN st
    ELSE LET line == TrimSpace(lines[i]) IN
         IF line = <<>> THEN SplitLoop(lines, i + 1, st, lim)
         ELSE IF Exceeds(st.currentPart, line, lim)
              THEN SplitLoop(lines, i + 1, Flush(st, line), lim)
              ELSE SplitLoop(lines, i + 1, Extend(st, line), lim)

SplitMessage(t, lim) ==
    LET st == SplitLoop(Split(TrimSpace(t)), 1,
                        [result |-> <<>>, currentPart |-> <<>>], lim)
    IN IF TrimSpace(st.currentPart) # <<>>
       THEN Append(st.result, TrimSpace(st.currentPart))
       ELSE st.result

-----------------------------------------------------------------------------
(* internal/formatter *)

Pad(n, width) ==
    LET s == ToString(n) IN
    IF Len(s) >= width THEN s
    ELSE IF Len(s) = width - 1 THEN "0" \o s
    ELSE IF Len(s) = width - 2 THEN "00" \o s
    ELSE "000" \o s

\* the date written day first
FormatDateDayFirst(t) == Pad(t.day, 2) \o "-" \o Pad(t.month, 2) \o "-" \o Pad(t.year, 4)

\* time.Time.Format("2006-01-02"): the calendar date, the time of day is dropped
FormatDate(t) == Pad(t.year, 4) \o "-" \o Pad(t.month, 2) \o "-" \o Pad(t.day, 2)

\* the <a href="https://twitch.tv/LOGIN">NAME</a> both the header and the entries use
Link(login, name) ==
    <<"<a", " ", "href=\"https://twitch.tv/">> \o login \o <<"\">">> \o name \o <<"</a>">>

\* the entries numbered from 0, as range yields them
EntryZeroBased(i, login, name, word, date) ==
    <<ToString(i - 1) \o ".", " ">> \o Link(login, name)
        \o <<" ", "(" \o word, " ", "at", " ", FormatDate(date) \o ")", "\n">>

\* one numbered entry: "%d. <a href=\"%s\">%s</a> (WORD at %s)\n"
Entry(i, login, name, word, date) ==
    <<ToString(i) \o ".", " ">> \o Link(login, name)
        \o <<" ", "(" \o word, " ", "at", " ", FormatDate(date) \o ")", "\n">>

RECURSIVE FollowEntries(_, _)
FollowEntries(follows, i) ==
    IF i > Len(follows) THEN <<>>
    ELSE Entry(i, follows[i].Login, follows[i].DisplayName, "followed", follows[i].FollowedAt)
             \o FollowEntries(follows, i + 1)

FormatFollows(username, follows) ==
    Link(username, username) \o <<" ", "is", " ", "following:", "\n">>
        \o FollowEntries(follows, 1)

RECURSIVE ModEntries(_, _)
ModEntries(mods, i) ==
    IF i > Len(mods) THEN <<>>
    ELSE Entry(i, mods[i].Login, mods[i].DisplayName, "moded", mods[i].GrantedAt)
             \o ModEntries(mods, i + 1)

FormatMods(username, mods) ==
    Link(username, username)
        \o <<"'s", " ", "list", " ", "of", " ", "channel", " ", "moders:", "\n">>
        \o ModEntries(mods, 1)

RECURSIVE VipEntries(_, _)
VipEntries(vips, i) ==
    IF i > Len(vips) THEN <<>>
    ELSE Entry(i, vips[i].Login, vips[i].DisplayName, "viped", vips[i].GrantedAt)
             \o VipEntries(vips, i + 1)

FormatVips(username, vips) ==
    Link(username, username)
        \o <<"'s", " ", "list", " ", "of", " ", "channel", " ", "vips:", "\n">>
        \o VipEntries(vips, 1)

RECURSIVE FounderEntries(_, _)
FounderEntries(founders, i) ==
    IF i > Len(founders) THEN <<>>
    ELSE Entry(i, founders[i].Login, founders[i].DisplayName, "founded", founders[i].FirstMonth)
             \o FounderEntries(founders, i + 1)

FormatFounders(username, founders) ==
    Link(username, username)
        \o <<"'s", " ", "list", " ", "of", " ", "channel", " ", "founders:", "\n">>
        \o FounderEntries(founders, 1)

-----------------------------------------------------------------------------
(* internal/fetcher *)

NilErr == "<nil>"   \* a nil error

Kinds == {"follows", "moders", "vips", "founders"}

\* the path segment of each endpoint and the words of its messages
Operation(kind) ==
    CASE kind = "follows" -> "getfollows"
      [] kind = "moders" -> "getmods"
      [] kind = "vips" -> "getvips"
      [] kind = "founders" -> "getfounders"

FetchWord(kind) ==
    CASE kind = "follows" -> "follows"
      [] kind = "moders" -> "mods"
      [] kind = "vips" -> "vips"
      [] kind = "founders" -> "founders"

\* every operation answering 400 with the message of FetchFollows
NoEntriesOfFollows(kind) == "the user does not follow any channel"

NoEntries(kind) ==
    CASE kind = "follows" -> "the user does not follow any channel"
      [] kind = "moders" -> "the user does not have any moderators on their channel"
      [] kind = "vips" -> "the user does not have any VIPs on their channel"
      [] kind = "founders" -> "the user does not have any founders on their channel"

Url(kind, username) ==
    "https://tools.2807.eu/api/" \o Operation(kind) \o "/" \o Flat(username)

\* http.NewRequestWithContext refuses a URL that holds a control character
BuildFails(username) == \E i \in 1..Len(username) : username[i] \in {"\n", "\t", "\r"}

\* how a failed client.Do reports its cause
Cause(http) ==
    CASE http.t = "deadline" -> "context deadline exceeded"
      [] http.t = "canceled" -> "context canceled"
      [] OTHER -> "connection refused"

\* a decoded JSON object as the typed record of its kind
Typed(kind, obj) ==
    CASE kind = "follows" ->
             [DisplayName |-> obj.displayName, Login |-> obj.login, FollowedAt |-> obj.at]
      [] kind = "founders" ->
             [DisplayName |-> obj.displayName, Login |-> obj.login, FirstMonth |-> obj.at]
      [] OTHER ->
             [DisplayName |-> obj.displayName, Login |-> obj.login, GrantedAt |-> obj.at]

\* json.NewDecoder(resp.Body).Decode into the slice of the kind
Decode(kind, body) == [i \in 1..Len(body) |-> Typed(kind, body[i])]

\* FetchFollows, FetchMods, FetchVips, FetchFounders differ in the endpoint and
\* the messages only: one request, its outcome http, mapped to (records, error)
Fetch(kind, username, http) ==
    IF BuildFails(username) THEN
        [recs |-> <<>>, err |-> "failed to create request: invalid control character in URL"]
    ELSE IF http.t # "status" THEN
        [recs |-> <<>>,
         err |-> "failed to fetch " \o FetchWord(kind) \o ": Get \""
                     \o Url(kind, username) \o "\": " \o Cause(http)]
    ELSE IF http.code # 200 THEN
        IF http.code = 400 THEN [recs |-> <<>>, err |-> NoEntries(kind)]
        ELSE IF http.code = 404 THEN [recs |-> <<>>, err |-> "user not found"]
        ELSE [recs |-> <<>>, err |-> "unexpected status code: " \o ToString(http.code)]
    ELSE IF ~http.valid THEN
        [recs |-> <<>>, err |-> "failed to decode response: invalid character"]
    ELSE [recs |-> Decode(kind, http.body), err |-> NilErr]

FetchFollows(username, http) == Fetch("follows", username, http)
FetchMods(username, http) == Fetch("moders", username, http)
FetchVips(username, http) == Fetch("vips", username, http)
FetchFounders(username, http) == Fetch("founders", username, http)

-----------------------------------------------------------------------------
(* internal/bot: the conversation controller *)

telegramMessageLimit == 4096

NilRef == 0          \* the id standing for a nil pointer (no Message, no From)
Users == {7}         \* user ids; the private chat of a user has the user's id
Groups == {-100}       \* group chat ids
ChatIDs == Users \cup Groups

ButtonData == Kinds \cup {"other"}   \* callback payloads; "other" is not a menu button

\* the senders whose messages reach the bot in chat c
Senders(c) == IF c \in Users THEN {c} ELSE Users

ZeroUserState == [AwaitingUsername |-> FALSE, PressedButton |-> ""]

\* Go map operations on userState
Lookup(us, k) == IF k \in DOMAIN us THEN us[k] ELSE ZeroUserState
Put(us, k, v) == [x \in DOMAIN us \cup {k} |-> IF x = k THEN v ELSE us[x]]
Delete(us, k) == [x \in DOMAIN us \ {k} |-> us[x]]

\* the requests the bot makes to the Telegram API; a request is recorded when it
\* is made, whether or not Telegram then accepts it
Message(chatID, txt) ==
    [method |-> "sendMessage", chat |-> chatID, text |-> txt, keyboard |-> <<>>, html |-> FALSE]

Keyboard == <<<<"follows", "moders">>, <<"vips", "founders">>>>

Api(b, req) == [b EXCEPT !.api = Append(@, req)]

Panic(b) == [b EXCEPT !.panicked = TRUE]

\* the view ViewCmdStart returns
ViewCmdStart(b, update) ==
    Api(b, [Message(update.chat, "Select the option:") EXCEPT !.keyboard = Keyboard])

sendStartKeyboard(b, update) == ViewCmdStart(b, update)

\* the error logged and not sent to the chat
sendErrorLogOnly(b, chatID, message, err) == b

sendError(b, chatID, message, err) ==
    Api(b, Message(chatID, message \o ": " \o err \o "."))

isAwaitingUsername(us, chatID) ==
    chatID \in DOMAIN us /\ us[chatID].AwaitingUsername

handleCallback(b, callback) ==
    LET b1 == Api(b, [method |-> "answerCallbackQuery", chat |-> NilRef,
                      text |-> callback.data, keyboard |-> <<>>, html |-> FALSE])
    IN IF callback.chat = NilRef THEN Panic(b1)   \* callback.Message is nil
       ELSE Api([b1 EXCEPT !.userState =
                    Put(@, callback.chat,
                        [AwaitingUsername |-> TRUE, PressedButton |-> callback.data])],
                Message(callback.chat, "Enter the channel name:"))

\* cmdView(ctx, b.api, update) for the view registered under a name
RunView(b, view, update) ==
    LET b1 == [b EXCEPT !.dispatched = Append(@, view)]
    IN IF view = "ViewCmdStart" THEN ViewCmdStart(b1, update) ELSE b1

\* handleCommand answering an unknown command with the menu alone
handleCommandSilent(b, update) ==
    IF update.cmd \notin DOMAIN cmdViewMap
    THEN sendStartKeyboard(b, update)
    ELSE RunView(b, cmdViewMap[update.cmd], update)

handleCommand(b, update) ==
    IF update.cmd \notin DOMAIN cmdViewMap
    THEN sendStartKeyboard(Api(b, Message(update.chat, "Unknown command.")), update)
    ELSE RunView(b, cmdViewMap[update.cmd], update)

\* processRequest: (bot, response, error)
processRequest(b, username, button, http) ==
    LET call(r, out) ==
            [b |-> [b EXCEPT !.calls = Append(@, [kind |-> button, username |-> username])],
             response |-> IF r.err = NilErr THEN out ELSE <<>>,
             err |-> r.err]
    IN CASE button = "follows" ->
                LET r == FetchFollows(username, http)
                IN call(r, FormatFollows(username, r.recs))
         [] button = "moders" ->
                LET r == FetchMods(username, http)
                IN call(r, FormatMods(username, r.recs))
         [] button = "vips" ->
                LET r == FetchVips(username, http)
                IN call(r, FormatVips(username, r.recs))
         [] button = "founders" ->
                LET r == FetchFounders(username, http)
                IN call(r, FormatFounders(username, r.recs))
         [] OTHER ->
                [b |-> b, response |-> <<>>, err |-> "unknown button: " \o button]

\* the whole reply sent as one message
sendWhole(b, chatID, messages, i) ==
    Api(b, [Message(chatID, Flat(Join(messages))) EXCEPT !.html = TRUE])

\* the loop of config.go:260-265
RECURSIVE sendParts(_, _, _, _)
sendParts(b, chatID, messages, i) ==
    IF i > Len(messages) THEN b
    ELSE sendParts(Api(b, [Message(chatID, Flat(messages[i])) EXCEPT !.html = TRUE]),
                   chatID, messages, i + 1)

handleUserInput(b, update, http) ==
    LET username == update.text
        state == Lookup(b.userState, update.from)
        b1 == [b EXCEPT !.userState = Delete(@, update.chat), !.consumed = TRUE]
        r == processRequest(b1, username, state.PressedButton, http)
    IN IF r.err # NilErr
       THEN sendStartKeyboard(sendError(r.b, update.chat, "Failed to fetch data", r.err), update)
       ELSE sendStartKeyboard(
                sendParts(r.b, update.chat, SplitMessage(r.response, telegramMessageLimit), 1),
                update)

handleUpdate(b, update, http) ==
    IF update.shape = "callback" THEN handleCallback(b, update)
    ELSE IF update.shape # "message" THEN b
    ELSE IF update.from = NilRef THEN Panic(b)   \* update.Message.From is nil
    ELSE IF isAwaitingUsername(b.userState, update.from) THEN handleUserInput(b, update, http)
    ELSE IF update.cmd # "" THEN handleCommand(b, update)
    ELSE sendStartKeyboard(b, update)

\* the deferred function of handleUpdate: what becomes of the process
Recover(panicked) == IF panicked THEN "fatal" ELSE "running"

-----------------------------------------------------------------------------
(* The inputs: updates of the feed and outcomes of the HTTP request *)

\* the decoded JSON bodies a 200 response can carry: no object, or one
BobBody ==
    <<[displayName |-> <<"Bob">>, login |-> <<"bob">>,
       at |-> [year |-> 2020, month |-> 1, day |-> 15]]>>

\* a display name of 2048 bytes
Name32 == "xxxxxxxxxxxxxxxxxxxxxxxxxxxxxxxx"
Name512 ==
    Name32 \o Name32 \o Name32 \o Name32 \o Name32 \o Name32 \o Name32 \o Name32
        \o Name32 \o Name32 \o Name32 \o Name32 \o Name32 \o Name32 \o Name32 \o Name32
LongName == Name512 \o Name512 \o Name512 \o Name512

\* three objects that make a reply of more than telegramMessageLimit bytes
LongBody ==
    <<[displayName |-> <<LongName>>, login |-> <<"zed">>,
       at |-> [year |-> 2019, month |-> 7, day |-> 9]],
      [displayName |-> <<LongName>>, login |-> <<"al">>,
       at |-> [year |-> 2021, month |-> 12, day |-> 3]],
      [displayName |-> <<LongName>>, login |-> <<"bob">>,
       at |-> [year |-> 2020, month |-> 1, day |-> 15]]>>

Bodies == {<<>>, BobBody, LongBody}

NoHttp == [t |-> "none", code |-> 0, valid |-> FALSE, body |-> <<>>]

Canceled == [NoHttp EXCEPT !.t = "canceled"]

\* how the one HTTP request of a fetch can end: a transport failure, the update's
\* 5 s context expiring while the request is in flight ("deadline"), the context
\* of Start being cancelled ("canceled"), or a response with a status code and,
\* for 200, a body that is valid JSON or not
HttpOutcomes ==
    {[NoHttp EXCEPT !.t = x] : x \in {"transport", "deadline"}}
    \cup {[NoHttp EXCEPT !.t = "status", !.code = c] : c \in {200, 400, 404, 500}}
    \cup {[t |-> "status", code |-> 200, valid |-> TRUE, body |-> body] : body \in Bodies}

\* a message's text with the command name Message.Command() reads from it
\* ("" when Message.IsCommand() is false)
Texts ==
    {[text |-> <<"bob">>, cmd |-> ""],
     [text |-> <<"/start">>, cmd |-> "start"],
     [text |-> <<"/foo">>, cmd |-> "foo"]}

NoUpdate ==
    [shape |-> "none", chat |-> NilRef, from |-> NilRef, data |-> "", text |-> <<>>, cmd |-> ""]

CallbackUpdates ==
    {[NoUpdate EXCEPT !.shape = "callback", !.chat = c, !.data = d] :
        c \in ChatIDs \cup {NilRef}, d \in ButtonData}

MessageUpdates ==
    UNION {{[NoUpdate EXCEPT !.shape = "message", !.chat = c, !.from = f,
                             !.text = t.text, !.cmd = t.cmd] :
               f \in Senders(c) \cup {NilRef}, t \in Texts} : c \in ChatIDs}

-----------------------------------------------------------------------------
(* The bot: New, RegisterCommand and Start *)

NoLast ==
    [update |-> NoUpdate, http |-> NoHttp, prior |-> "idle", signalled |-> FALSE,
     api |-> <<>>, calls |-> <<>>, dispatched |-> <<>>, panicked |-> FALSE,
     consumed |-> FALSE, handled |-> FALSE]

\* nothing was run on its own, and the loop is not followed step by step
NoCall == input = <<>> /\ output = <<>> /\ loop = <<>>

\* main: bot.New and RegisterCommand("start", ViewCmdStart())
BotInit ==
    /\ userState = <<>>
    /\ cmdViewMap = [c \in {"start"} |-> "ViewCmdStart"]
    /\ proc = "running"
    /\ ctxDone = FALSE
    /\ feed = 0
    /\ last = NoLast
    /\ hist = [c \in ChatIDs |-> "idle"]

Init ==
    /\ BotInit
    /\ text = <<>> /\ limit = 0 /\ result = <<>> /\ phase = "bot"
    /\ NoCall

\* the library's polling goroutine puts an update on the updates channel
Deliver ==
    /\ proc = "running"
    /\ feed < MaxFeed
    /\ feed' = feed + 1
    /\ UNCHANGED <<userState, cmdViewMap, proc, ctxDone, last, hist, splitVars, callVars>>

\* SIGINT or SIGTERM: signal.NotifyContext cancels the context of Start
Signal ==
    /\ proc = "running"
    /\ ~ctxDone
    /\ ctxDone' = TRUE
    /\ UNCHANGED <<userState, cmdViewMap, proc, feed, last, hist, splitVars, callVars>>

\* the history of the chats after update was handled
NextHist(update, b) ==
    IF b.panicked \/ update.shape = "none" THEN hist
    ELSE IF update.shape = "callback"
    THEN [c \in ChatIDs |->
             IF c = update.chat THEN update.data
             ELSE IF hist[c] = "consumed" THEN "idle" ELSE hist[c]]
    ELSE [hist EXCEPT ![update.chat] = IF b.consumed THEN "consumed" ELSE "idle"]

\* case update := <-updates of Start's select: the update is handled under its
\* own context, whose fetch ends as http says
Receive(update, http) ==
    /\ proc = "running"
    /\ feed > 0
    /\ \E b \in {handleUpdate([userState |-> userState, api |-> <<>>, calls |-> <<>>,
                                dispatched |-> <<>>, panicked |-> FALSE,
                                consumed |-> FALSE], update, http)} :
          /\ userState' = b.userState
          /\ proc' = Recover(b.panicked)
          /\ ctxDone' = (ctxDone \/ (b.calls # <<>> /\ http.t = "canceled"))
          /\ last' = [update |-> update,
                      http |-> http,
                      prior |-> IF update.chat \in ChatIDs THEN hist[update.chat] ELSE "idle",
                      signalled |-> ctxDone,
                      api |-> b.api, calls |-> b.calls, dispatched |-> b.dispatched,
                      panicked |-> b.panicked, consumed |-> b.consumed, handled |-> TRUE]
          /\ hist' = NextHist(update, b)
    /\ feed' = feed - 1
    /\ UNCHANGED <<cmdViewMap, splitVars, callVars>>

\* the outcomes the HTTP request of update can have: none when handling it makes
\* no fetcher call, and after the signal the request finds its context cancelled
Outcomes(update) ==
    LET b0 == [userState |-> userState, api |-> <<>>, calls |-> <<>>,
               dispatched |-> <<>>, panicked |-> FALSE, consumed |-> FALSE]
    IN IF handleUpdate(b0, update, NoHttp).calls = <<>> THEN {NoHttp}
       ELSE IF ctxDone THEN {Canceled}
       ELSE HttpOutcomes \cup {Canceled}

ReceiveCallback == \E update \in CallbackUpdates : Receive(update, NoHttp)

ReceiveMessage ==
    \E update \in MessageUpdates : \E http \in Outcomes(update) : Receive(update, http)

ReceiveEmpty == Receive(NoUpdate, NoHttp)

\* case <-ctx.Done() of Start's select
Return ==
    /\ proc = "running"
    /\ ctxDone
    /\ proc' = "returned"
    /\ UNCHANGED <<userState, cmdViewMap, ctxDone, feed, last, hist, splitVars, callVars>>

Next == Deliver \/ Signal \/ ReceiveCallback \/ ReceiveMessage \/ ReceiveEmpty \/ Return

Spec == Init /\ [][Next]_vars

-----------------------------------------------------------------------------
(* SplitMessage on its own: any input over SplitAlphabet, any limit *)

SplitAlphabet == {"a", "bb", " ", "\n"}

SplitInputs == UNION {[1..n -> SplitAlphabet] : n \in 0..MaxTextLen}

SplitInit ==
    /\ BotInit
    /\ text \in SplitInputs
    /\ limit \in 0..MaxLimit
    /\ result = <<>>
    /\ phase = "input"
    /\ NoCall

RunSplitMessage ==
    /\ phase = "input"
    /\ result' = SplitMessage(text, limit)
    /\ phase' = "done"
    /\ UNCHANGED <<text, limit, botVars, callVars>>

SplitNext == RunSplitMessage

SplitSpec == SplitInit /\ [][SplitNext]_vars

\* the lines of t, each trimmed of surrounding whitespace, the blank ones removed
TrimmedLines(t) ==
    LET lines == Split(t)
        trimmed == [i \in 1..Len(lines) |-> TrimSpace(lines[i])]
    IN SelectSeq(trimmed, LAMBDA l : l # <<>>)

RECURSIVE Longest(_)
Longest(lines) ==
    IF lines = <<>> THEN 0
    ELSE LET rest == Longest(Tail(lines))
         IN IF TextLen(Head(lines)) > rest THEN TextLen(Head(lines)) ELSE rest

\* C5: when the limit is at least the length of the longest trimmed line of the
\* input, every chunk SplitMessage returns has length at most the limit.
C5_ChunksWithinLimit ==
    (phase = "done" /\ limit >= Longest(TrimmedLines(text)))
        => \A i \in 1..Len(result) : TextLen(result[i]) <= limit

\* SplitMessage had to cut: lines that fit the limit one by one but not together
C5_Witness ==
    /\ phase = "done"
    /\ limit >= Longest(TrimmedLines(text))
    /\ Len(result) >= 2
    /\ \E i \in 1..Len(result) : TextLen(result[i]) = limit

\* C6: for any input and limit, the chunks joined with newlines, in order, are
\* the input's lines trimmed, blank lines removed, in their original order.
C6_ChunksRejoin ==
    phase = "done" => Join(result) = Join(TrimmedLines(text))

\* several chunks, from an input with a blank line and a line that was trimmed
C6_Witness ==
    /\ phase = "done"
    /\ Len(result) >= 2
    /\ Len(Split(text)) > Len(TrimmedLines(text))
    /\ \E i \in 1..Len(Split(text)) :
           Split(text)[i] # TrimSpace(Split(text)[i]) /\ TrimSpace(Split(text)[i]) # <<>>
    /\ Join(result) = Join(TrimmedLines(text))

-----------------------------------------------------------------------------
(* Claims about the bot.  last describes the handling of the most recent      *)
(* update; last.prior is what the update before it in the same chat was: a   *)
(* button press (its payload), a text consumed as a username ("consumed",    *)
(* until the next button press), or anything else ("idle").                  *)

HandledMessage ==
    last.handled /\ last.update.shape = "message" /\ last.update.from # NilRef

Menu(chatID) == [Message(chatID, "Select the option:") EXCEPT !.keyboard = Keyboard]

\* C1: a panic raised while handling an update aborts only that update: the
\* process keeps running (and Start goes on to handle later updates).
C1_PanicAbortsOnlyTheUpdate == last.panicked => proc # "fatal"

\* C2: a press of menu button b in a chat followed by a text u in that chat makes
\* exactly one fetcher call, of kind b with username u, and no other call.
C2_PressThenTextFetchesOnce ==
    (HandledMessage /\ last.prior \in Kinds)
        => last.calls = <<[kind |-> last.prior, username |-> last.update.text]>>

\* C3: after a text was consumed as the username, the next plain text in the same
\* chat, from any sender, is an idle interaction (menu, no fetcher call) unless a
\* button was pressed in between.
C3_SessionGoneAfterConsumption ==
    (HandledMessage /\ last.prior = "consumed" /\ last.update.cmd = "")
        => /\ last.calls = <<>>
           /\ ~last.consumed
           /\ last.api = <<Menu(last.update.chat)>>

\* C4: each chat has at most one pending session, after button presses in a chat
\* it records the most recently pressed button, and the next username in the chat
\* triggers the fetch kind of that last press.
C4_LastPressWins ==
    /\ DOMAIN userState \subseteq ChatIDs
    /\ \A c \in ChatIDs :
           hist[c] \in ButtonData
               => Lookup(userState, c) = [AwaitingUsername |-> TRUE, PressedButton |-> hist[c]]
    /\ (HandledMessage /\ last.prior \in Kinds)
           => /\ last.calls # <<>>
              /\ \A i \in 1..Len(last.calls) : last.calls[i].kind = last.prior

\* "founders" was pressed, "bob" sent in the same chat next, and the fetcher
\* returned the one record
FoundersOfBob ==
    /\ HandledMessage
    /\ last.prior = "founders"
    /\ last.update.text = <<"bob">>
    /\ last.calls = <<[kind |-> "founders", username |-> <<"bob">>]>>
    /\ last.http = [t |-> "status", code |-> 200, valid |-> TRUE, body |-> BobBody]

FoundersOfBobTrimmed ==
    "<a href=\"https://twitch.tv/bob\">bob</a>'s list of channel founders:\n"
        \o "1. <a href=\"https://twitch.tv/bob\">Bob</a> (founded at 2020-01-15)"

\* C7 as claimed: the data message is the formatter's output character for
\* character, its final newline included.
C7_ReplyIsFormatterOutput ==
    FoundersOfBob
        => /\ last.api[1].text = FoundersOfBobTrimmed \o "\n"
           /\ last.api[1].text = Flat(FormatFounders(<<"bob">>, Decode("founders", BobBody)))

\* C7 as amended: the data message is the header line, a newline and the numbered
\* line, without the final newline: the formatter's output as SplitMessage trims it.
C7_ReplyIsTrimmedFormatterOutput ==
    FoundersOfBob
        => /\ last.api = <<[Message(last.update.chat, FoundersOfBobTrimmed) EXCEPT !.html = TRUE],
                           Menu(last.update.chat)>>
           /\ Flat(FormatFounders(<<"bob">>, Decode("founders", BobBody)))
                  = FoundersOfBobTrimmed \o "\n"

C7_Witness == FoundersOfBob /\ Len(last.api) = 2 /\ last.api[1].html

\* C8: when the time budget of an update expires while its fetch is in flight, no
\* further action is performed for that update: no message is sent afterwards.
C8_NothingAfterExpiry ==
    (last.handled /\ last.http.t = "deadline") => last.api = <<>>

\* C9: once the signal has been received, the update loop accepts no new update
\* for handling, even when updates are waiting on the feed.
C9_NoUpdateAfterSignal == last.handled => ~last.signalled

\* an update was taken from the feed in this step and it is a command message
CommandReceived ==
    /\ feed' < feed
    /\ last'.update.shape = "message"
    /\ last'.update.from # NilRef
    /\ last'.update.cmd # ""

\* what the claim says the handling of a command does
CommandEffect ==
    IF last'.update.cmd \notin DOMAIN cmdViewMap
    THEN /\ last'.api = <<Message(last'.update.chat, "Unknown command."),
                          Menu(last'.update.chat)>>
         /\ last'.dispatched = <<>>
         /\ last'.calls = <<>>
         /\ userState' = userState
    ELSE last'.dispatched = <<cmdViewMap[last'.update.cmd]>>

\* C10 as claimed: every command whose name is not registered is answered with
\* "Unknown command." and then the menu, no handler run, no fetcher call, the
\* session map unchanged; a registered command runs exactly its handler.
C10_CommandDispatch == [][CommandReceived => CommandEffect]_vars

\* C10 as amended: the same, for a command of a sender under whose id no session
\* is pending.
C10_CommandDispatchWhenIdle ==
    [][(CommandReceived /\ last'.update.from \notin DOMAIN userState) => CommandEffect]_vars

C10_Witness ==
    /\ HandledMessage
    /\ last.update.cmd = "foo"
    /\ last.api = <<Message(last.update.chat, "Unknown command."), Menu(last.update.chat)>>
    /\ userState # <<>>

-----------------------------------------------------------------------------
(* The fetcher on its own: any kind, any username, any outcome of the request *)

\* the status codes of the responses
StatusCodes == {200, 201, 204, 301, 400, 401, 404, 500, 503}

\* usernames: plain, with a space, and with a control character in it
FetchUsernames == {<<"bob">>, <<"al", " ", "x">>, <<"al", "\t", "x">>}

\* how the request can end: no response, or a response with a status code whose
\* body, for 200, decodes into the slice of the kind (valid) or does not
FetchOutcomes ==
    {[NoHttp EXCEPT !.t = x] : x \in {"transport", "deadline", "canceled"}}
    \cup {[NoHttp EXCEPT !.t = "status", !.code = c] : c \in StatusCodes}
    \cup {[t |-> "status", code |-> 200, valid |-> TRUE, body |-> body] : body \in Bodies}

FetchInit ==
    /\ BotInit
    /\ text = <<>> /\ limit = 0 /\ result = <<>> /\ phase = "input"
    /\ input \in [kind : Kinds, username : FetchUsernames, http : FetchOutcomes]
    /\ output = <<>>
    /\ loop = <<>>

\* one call of FetchFollows, FetchMods, FetchVips or FetchFounders
RunFetch ==
    /\ phase = "input"
    /\ output' = (CASE input.kind = "follows" -> FetchFollows(input.username, input.http)
                    [] input.kind = "moders" -> FetchMods(input.username, input.http)
                    [] input.kind = "vips" -> FetchVips(input.username, input.http)
                    [] input.kind = "founders" -> FetchFounders(input.username, input.http))
    /\ phase' = "done"
    /\ UNCHANGED <<text, limit, result, input, loop, botVars>>

FetchNext == RunFetch

FetchSpec == FetchInit /\ [][FetchNext]_vars

\* the request was built and answered with status code
Answered(code) ==
    /\ ~BuildFails(input.username)
    /\ input.http.t = "status"
    /\ input.http.code = code

\* the date field of a record of the kind
DateOf(kind, rec) ==
    CASE kind = "follows" -> rec.FollowedAt
      [] kind = "founders" -> rec.FirstMonth
      [] OTHER -> rec.GrantedAt

\* C11: each fetch operation maps the outcome of its one request: 200 with a body
\* that decodes gives the decoded records and no error; 200 with a body that does
\* not decode gives a decode error; 400 the "no entries" error of the kind; 404
\* "user not found"; any other status an error carrying the code; a request that
\* cannot be built or gets no response an error; never both records and an error.
C11_OutcomeMapping ==
    phase = "done" =>
        /\ output.err = NilErr \/ output.recs = <<>>
        /\ (Answered(200) /\ input.http.valid) =>
               /\ output.err = NilErr
               /\ Len(output.recs) = Len(input.http.body)
               /\ \A i \in 1..Len(output.recs) :
                      /\ output.recs[i].DisplayName = input.http.body[i].displayName
                      /\ output.recs[i].Login = input.http.body[i].login
                      /\ DateOf(input.kind, output.recs[i]) = input.http.body[i].at
        /\ (Answered(200) /\ ~input.http.valid) =>
               output.err = "failed to decode response: invalid character"
        /\ Answered(400) =>
               output.err =
                   (CASE input.kind = "follows" -> "the user does not follow any channel"
                      [] input.kind = "moders" ->
                             "the user does not have any moderators on their channel"
                      [] input.kind = "vips" ->
                             "the user does not have any VIPs on their channel"
                      [] input.kind = "founders" ->
                             "the user does not have any founders on their channel")
        /\ Answered(404) => output.err = "user not found"
        /\ \A code \in StatusCodes \ {200, 400, 404} :
               Answered(code) => output.err = "unexpected status code: " \o ToString(code)
        /\ (BuildFails(input.username) \/ input.http.t # "status") =>
               /\ output.err # NilErr
               /\ output.err \notin {"user not found",
                                     "failed to decode response: invalid character"}

\* FetchVips was answered 400: its own "no entries" message, no record
C11_Witness ==
    /\ phase = "done"
    /\ input.kind = "vips"
    /\ Answered(400)
    /\ output = [recs |-> <<>>, err |-> "the user does not have any VIPs on their channel"]

-----------------------------------------------------------------------------
(* The formatters on their own: any kind, any list of up to MaxRecords records *)

Persons ==
    {BobBody[1],
     [displayName |-> <<"Al">>, login |-> <<"al">>,
      at |-> [year |-> 2021, month |-> 12, day |-> 3]],
     [displayName |-> <<"Zed">>, login |-> <<"zed">>,
      at |-> [year |-> 2019, month |-> 7, day |-> 9]]}

FormatUsernames == {<<"bob">>, <<"kirin">>}

FormatInit ==
    /\ BotInit
    /\ text = <<>> /\ limit = 0 /\ result = <<>> /\ phase = "input"
    /\ input \in [kind : Kinds, username : FormatUsernames,
                  records : UNION {[1..n -> Persons] : n \in 0..MaxRecords}]
    /\ output = <<>>
    /\ loop = <<>>

\* one call of FormatFollows, FormatMods, FormatVips or FormatFounders
RunFormat ==
    /\ phase = "input"
    /\ output' =
           (CASE input.kind = "follows" ->
                     FormatFollows(input.username, Decode("follows", input.records))
              [] input.kind = "moders" ->
                     FormatMods(input.username, Decode("moders", input.records))
              [] input.kind = "vips" ->
                     FormatVips(input.username, Decode("vips", input.records))
              [] input.kind = "founders" ->
                     FormatFounders(input.username, Decode("founders", input.records)))
    /\ phase' = "done"
    /\ UNCHANGED <<text, limit, result, input, loop, botVars>>

FormatNext == RunFormat

FormatSpec == FormatInit /\ [][FormatNext]_vars

\* the header line each formatter is to write for username u
HeaderLine(kind, u) ==
    "<a href=\"https://twitch.tv/" \o u \o "\">" \o u \o "</a>"
        \o (CASE kind = "follows" -> " is following:"
              [] kind = "moders" -> "'s list of channel moders:"
              [] kind = "vips" -> "'s list of channel vips:"
              [] kind = "founders" -> "'s list of channel founders:")

\* the numbered line each formatter is to write for the i-th record
NumberedLine(kind, i, rec) ==
    ToString(i) \o ". <a href=\"https://twitch.tv/" \o Flat(rec.login) \o "\">"
        \o Flat(rec.displayName) \o "</a> ("
        \o (CASE kind = "follows" -> "followed"
              [] kind = "moders" -> "moded"
              [] kind = "vips" -> "viped"
              [] kind = "founders" -> "founded")
        \o " at "
        \o (CASE rec.login = <<"bob">> -> "2020-01-15"
              [] rec.login = <<"al">> -> "2021-12-03"
              [] rec.login = <<"zed">> -> "2019-07-09")
        \o ")"

\* C12: for each formatter and any list of N records, the output is the header
\* line followed by exactly N numbered lines, numbered 1..N, the i-th describing
\* the i-th record of the input; for N = 0 it is the header line alone.
C12_HeaderThenNumberedLines ==
    phase = "done" =>
        LET lines == Split(output)
            n == Len(input.records)
        IN /\ Len(lines) = n + 2
           /\ lines[n + 2] = <<>>
           /\ Flat(lines[1]) = HeaderLine(input.kind, Flat(input.username))
           /\ \A i \in 1..n :
                  Flat(lines[i + 1]) = NumberedLine(input.kind, i, input.records[i])
           /\ n = 0 => Flat(output) = HeaderLine(input.kind, Flat(input.username)) \o "\n"

\* FormatMods on two records given out of alphabetical order
C12_Witness ==
    /\ phase = "done"
    /\ input.kind = "moders"
    /\ input.username = <<"kirin">>
    /\ Len(input.records) = 2
    /\ input.records[1].login = <<"zed">>
    /\ input.records[2].login = <<"al">>
    /\ Flat(output) =
           "<a href=\"https://twitch.tv/kirin\">kirin</a>'s list of channel moders:\n"
               \o "1. <a href=\"https://twitch.tv/zed\">Zed</a> (moded at 2019-07-09)\n"
               \o "2. <a href=\"https://twitch.tv/al\">Al</a> (moded at 2021-12-03)\n"

-----------------------------------------------------------------------------
(* pkg/config and main: the start of the process under any environment *)

EnvKeys == {"TELEGRAM_TOKEN", "DEBUG"}

\* the process environment: each variable unset or set
Environments ==
    UNION {{e \in [keys -> {"1", "123:env"}] :
               /\ "TELEGRAM_TOKEN" \in keys => e["TELEGRAM_TOKEN"] = "123:env"
               /\ "DEBUG" \in keys => e["DEBUG"] = "1"} : keys \in SUBSET EnvKeys}

Assignments ==
    {[key |-> "TELEGRAM_TOKEN", value |-> ""],
     [key |-> "TELEGRAM_TOKEN", value |-> "123:file"],
     [key |-> "DEBUG", value |-> "1"]}

\* the file .env of the working directory: missing, not parseable, or a list of
\* KEY=VALUE lines
EnvFiles ==
    {[exists |-> FALSE, parses |-> FALSE, lines |-> <<>>],
     [exists |-> TRUE, parses |-> FALSE, lines |-> <<>>]}
    \cup {[exists |-> TRUE, parses |-> TRUE, lines |-> l] :
             l \in UNION {[1..n -> Assignments] : n \in 0..MaxFileLines}}

\* the map godotenv parses the file into: a later line of a key replaces an earlier
RECURSIVE Parse(_, _)
Parse(lines, m) ==
    IF lines = <<>> THEN m
    ELSE Parse(Tail(lines),
               [k \in DOMAIN m \cup {Head(lines).key} |->
                   IF k = Head(lines).key THEN Head(lines).value ELSE m[k]])

\* godotenv.Load(): (environment afterwards, error); a variable the environment
\* already holds is not overwritten
GodotenvLoad(env, file) ==
    IF ~file.exists THEN
        [env |-> env, err |-> "open .env: no such file or directory"]
    ELSE IF ~file.parses THEN
        [env |-> env, err |-> "unexpected character in variable name"]
    ELSE LET m == Parse(file.lines, <<>>)
         IN [env |-> [k \in DOMAIN env \cup DOMAIN m |->
                         IF k \in DOMAIN env THEN env[k] ELSE m[k]],
             err |-> NilErr]

\* os.Getenv
Getenv(env, key) == IF key \in DOMAIN env THEN env[key] ELSE ""

\* Config.validate
validate(c) == IF c.TelegramToken = "" THEN "TELEGRAM_TOKEN is required" ELSE NilErr

\* config.Load: (cfg, error), with the environment it leaves
Load(env, file) ==
    LET g == GodotenvLoad(env, file)
        cfg == [TelegramToken |-> Getenv(g.env, "TELEGRAM_TOKEN")]
    IN IF g.err # NilErr THEN [cfg |-> <<>>, err |-> g.err, env |-> g.env]
       ELSE IF validate(cfg) # NilErr THEN [cfg |-> <<>>, err |-> validate(cfg), env |-> g.env]
       ELSE [cfg |-> cfg, err |-> NilErr, env |-> g.env]

\* main up to the call of Start: what becomes of the process, and whether bot.New
\* was reached; api tells whether tgbotapi.NewBotAPI succeeds
main(env, file, api) ==
    LET l == Load(env, file)
    IN IF l.err # NilErr THEN [load |-> l, proc |-> "fatal", bot |-> FALSE]
       ELSE IF api # "ok" THEN [load |-> l, proc |-> "returned", bot |-> FALSE]
       ELSE [load |-> l, proc |-> "running", bot |-> TRUE]

ConfigInit ==
    /\ BotInit
    /\ text = <<>> /\ limit = 0 /\ result = <<>> /\ phase = "input"
    /\ input \in [env : Environments, file : EnvFiles, api : {"ok", "unauthorized"}]
    /\ output = <<>>
    /\ loop = <<>>

RunMain ==
    /\ phase = "input"
    /\ output' = main(input.env, input.file, input.api)
    /\ phase' = "done"
    /\ UNCHANGED <<text, limit, result, input, loop, botVars>>

ConfigNext == RunMain

ConfigSpec == ConfigInit /\ [][ConfigNext]_vars

\* the token is given: non-empty in the process environment, or non-empty in the
\* environment file
TokenGiven ==
    \/ Getenv(input.env, "TELEGRAM_TOKEN") # ""
    \/ /\ input.file.exists
       /\ input.file.parses
       /\ \E i \in 1..Len(input.file.lines) :
              /\ input.file.lines[i] = [key |-> "TELEGRAM_TOKEN", value |-> "123:file"]
              /\ \A j \in (i + 1)..Len(input.file.lines) :
                     input.file.lines[j].key # "TELEGRAM_TOKEN"

\* C13: loading the configuration succeeds exactly when the token is given,
\* directly in the process environment or in the local environment file; when it
\* is absent, and only then, the start fails fatally and no bot is constructed.
C13_LoadSucceedsIffTokenGiven ==
    phase = "done" =>
        /\ output.load.err = NilErr <=> TokenGiven
        /\ output.proc = "fatal" <=> ~TokenGiven
        /\ output.proc = "fatal" => ~output.bot

-----------------------------------------------------------------------------
(* Claims about the sessions of the bot *)

\* a message with a sender was taken from the feed in this step
MessageReceived ==
    /\ feed' < feed
    /\ last'.update.shape = "message"
    /\ last'.update.from # NilRef

\* C14: the session a button press in chat C wrote is the one tested, read and
\* deleted when the next text arrives in chat C, whoever sent it: the text is taken
\* as a username exactly when C has a pending session, the fetch is of the button
\* that session holds, C's session is deleted and no other session is touched.
C14_SessionKeyedByChat ==
    [][MessageReceived =>
          LET c == last'.update.chat
              session == Lookup(userState, c)
          IN /\ last'.consumed <=> isAwaitingUsername(userState, c)
             /\ last'.consumed =>
                    /\ userState' = Delete(userState, c)
                    /\ c \notin DOMAIN userState'
                    /\ session.PressedButton \in Kinds =>
                           last'.calls = <<[kind |-> session.PressedButton,
                                            username |-> last'.update.text]>>
             /\ ~last'.consumed => userState' = userState]_vars

\* the error the one fetcher call of the update handled last returned
FetchError ==
    IF last.calls = <<>> THEN NilErr
    ELSE Fetch(last.calls[1].kind, last.calls[1].username, last.http).err

\* C15: when the fetch for a supplied username fails, for any reason, the bot
\* sends exactly one error message to the chat and then the menu, no data message,
\* the chat is left without a pending session, and the process keeps running.
C15_FetchFailureReported ==
    [][(MessageReceived /\ last'.calls # <<>> /\ FetchError' # NilErr) =>
          LET c == last'.update.chat
          IN /\ last'.api = <<Message(c, "Failed to fetch data: " \o FetchError' \o "."),
                              Menu(c)>>
             /\ last'.http.t = "status" /\ last'.http.code = 404 =>
                    last'.api[1].text = "Failed to fetch data: user not found."
             /\ last'.http.t = "deadline" =>
                    last'.api[1].text =
                        "Failed to fetch data: failed to fetch "
                            \o FetchWord(last'.calls[1].kind) \o ": Get \""
                            \o Url(last'.calls[1].kind, last'.calls[1].username)
                            \o "\": context deadline exceeded."
             /\ Len(last'.calls) = 1
             /\ c \notin DOMAIN userState'
             /\ ~last'.panicked
             /\ proc' = "running"]_vars

\* the fetch of the moderators of "bob" was answered 404
C15_Witness ==
    /\ HandledMessage
    /\ last.calls = <<[kind |-> "moders", username |-> <<"bob">>]>>
    /\ last.http.t = "status" /\ last.http.code = 404
    /\ last.api = <<Message(last.update.chat, "Failed to fetch data: user not found."),
                    Menu(last.update.chat)>>
    /\ last.update.chat \notin DOMAIN userState
    /\ proc = "running"

\* the formatter's output for the fetch of the update handled last
Formatted ==
    LET kind == last.calls[1].kind
        username == last.calls[1].username
        recs == Decode(kind, last.http.body)
    IN CASE kind = "follows" -> FormatFollows(username, recs)
         [] kind = "moders" -> FormatMods(username, recs)
         [] kind = "vips" -> FormatVips(username, recs)
         [] kind = "founders" -> FormatFounders(username, recs)

\* C16: on a successful fetch the formatted output is sent as exactly one message
\* per chunk, in chunk order, all to the chat the username came from, and the menu
\* is sent only after the last chunk.
C16_OneMessagePerChunk ==
    (HandledMessage /\ last.calls # <<>> /\ FetchError = NilErr) =>
        LET chunks == SplitMessage(Formatted, telegramMessageLimit)
            n == Len(chunks)
            c == last.update.chat
        IN /\ Len(last.api) = n + 1
           /\ \A i \in 1..n :
                  last.api[i] = [Message(c, Flat(chunks[i])) EXCEPT !.html = TRUE]
           /\ last.api[n + 1] = Menu(c)
           /\ last.http.body = LongBody =>
                  /\ n = 3
                  /\ last.api[1].text =
                         HeaderLine(last.calls[1].kind, Flat(last.update.text)) \o "\n"
                             \o NumberedLine(last.calls[1].kind, 1, LongBody[1])
                  /\ last.api[2].text = NumberedLine(last.calls[1].kind, 2, LongBody[2])
                  /\ last.api[3].text = NumberedLine(last.calls[1].kind, 3, LongBody[3])

\* a reply of three chunks: three data messages, then the menu
C16_Witness ==
    /\ HandledMessage
    /\ last.http.t = "status" /\ last.http.body = LongBody
    /\ Len(last.api) = 4
    /\ \A i \in 1..3 :
           /\ last.api[i].html
           /\ last.api[i].chat = last.update.chat
           /\ Len(last.api[i].text) <= telegramMessageLimit
    /\ Len(last.api[1].text) + Len(last.api[2].text) > telegramMessageLimit
    /\ last.api[4] = Menu(last.update.chat)

-----------------------------------------------------------------------------
(* Start's loop step by step: the updates channel as a queue, the call of      *)
(* handleUpdate from its entry to its return                                   *)

\* the updates that arrive: a button press, a text, an update without either
LoopUpdates ==
    {[NoUpdate EXCEPT !.shape = "callback", !.chat = 7, !.data = "follows"],
     [NoUpdate EXCEPT !.shape = "message", !.chat = 7, !.from = 7, !.text = <<"bob">>],
     NoUpdate}

\* handleUpdate started as a goroutine: the loop is back at its select at once
handleUpdateSpawned == "select"

\* b.handleUpdate(updateCtx, update): the loop goes on when the call has returned
handleUpdateCalled == "handling"

LoopInit ==
    /\ BotInit
    /\ text = <<>> /\ limit = 0 /\ result = <<>> /\ phase = "loop"
    /\ input = <<>>
    /\ output = <<>>
    /\ loop = [pc |-> "select", arrived |-> 0, queue |-> <<>>, handlers |-> <<>>,
               begun |-> <<>>, ended |-> <<>>]

\* the polling goroutine of GetUpdatesChan sends the next update on the channel
Arrive ==
    /\ proc = "running"
    /\ loop.arrived < MaxArrivals
    /\ \E update \in LoopUpdates :
           loop' = [loop EXCEPT !.arrived = @ + 1,
                                !.queue = Append(@, [n |-> loop.arrived + 1,
                                                     update |-> update])]
    /\ UNCHANGED <<botVars, splitVars, input, output>>

\* case update := <-updates: the first update of the channel, handleUpdate entered
Take ==
    /\ proc = "running"
    /\ loop.pc = "select"
    /\ loop.queue # <<>>
    /\ loop' = [loop EXCEPT !.pc = handleUpdateCalled,
                            !.queue = Tail(@),
                            !.handlers = Append(@, [n |-> Head(loop.queue).n,
                                                    update |-> Head(loop.queue).update,
                                                    at |-> "entered"]),
                            !.begun = Append(@, Head(loop.queue).n)]
    /\ UNCHANGED <<botVars, splitVars, input, output>>

\* handler i tests, reads and writes the session map; a fetch follows or not
Access(i) ==
    /\ loop.handlers[i].at = "entered"
    /\ LET b0 == [userState |-> userState, api |-> <<>>, calls |-> <<>>,
                  dispatched |-> <<>>, panicked |-> FALSE, consumed |-> FALSE]
           b == handleUpdate(b0, loop.handlers[i].update, NoHttp)
       IN /\ userState' = b.userState
          /\ loop' = [loop EXCEPT !.handlers[i].at =
                                      IF b.calls # <<>> THEN "fetching" ELSE "sending"]
    /\ UNCHANGED <<cmdViewMap, proc, ctxDone, feed, last, hist, splitVars, input, output>>

\* the fetcher call of handler i returns
FetchDone(i) ==
    /\ loop.handlers[i].at = "fetching"
    /\ loop' = [loop EXCEPT !.handlers[i].at = "sending"]
    /\ UNCHANGED <<botVars, splitVars, input, output>>

\* handler i has made its sends and returns
Finish(i) ==
    /\ loop.handlers[i].at = "sending"
    /\ loop' = [loop EXCEPT !.pc = "select",
                            !.handlers = SubSeq(@, 1, i - 1) \o SubSeq(@, i + 1, Len(@)),
                            !.ended = Append(@, loop.handlers[i].n)]
    /\ UNCHANGED <<botVars, splitVars, input, output>>

\* SIGINT or SIGTERM
Cancel ==
    /\ proc = "running"
    /\ ~ctxDone
    /\ ctxDone' = TRUE
    /\ UNCHANGED <<userState, cmdViewMap, proc, feed, last, hist, splitVars, callVars>>

\* case <-ctx.Done(): Start returns
Stop ==
    /\ proc = "running"
    /\ loop.pc = "select"
    /\ ctxDone
    /\ proc' = "returned"
    /\ UNCHANGED <<userState, cmdViewMap, ctxDone, feed, last, hist, splitVars, callVars>>

LoopNext ==
    \/ Arrive
    \/ Take
    \/ \E i \in 1..Len(loop.handlers) : Access(i)
    \/ \E i \in 1..Len(loop.handlers) : FetchDone(i)
    \/ \E i \in 1..Len(loop.handlers) : Finish(i)
    \/ Cancel
    \/ Stop

LoopSpec == LoopInit /\ [][LoopNext]_vars

\* C17: updates are handled one at a time and in arrival order: the handling of
\* an update, its fetch and sends included, has returned before the handling of
\* the next begins, so no two handlers are at the session map at once.
C17_OneAtATimeInOrder ==
    /\ Len(loop.handlers) <= 1
    /\ loop.begun = [i \in 1..Len(loop.begun) |-> i]
    /\ Len(loop.ended) <= Len(loop.begun)
    /\ Len(loop.begun) <= Len(loop.ended) + 1
    /\ loop.ended = SubSeq(loop.begun, 1, Len(loop.ended))
    /\ loop.pc = "select" => loop.handlers = <<>>

\* the second update's fetch is in flight while the third waits on the channel
C17_Witness ==
    /\ Len(loop.handlers) = 1
    /\ loop.handlers[1].at = "fetching"
    /\ loop.handlers[1].n = 2
    /\ loop.ended = <<1>>
    /\ loop.queue # <<>>
    /\ Head(loop.queue).n = 3

-----------------------------------------------------------------------------
(* Claims about the composition of SplitMessage's chunks *)

\* the lines of the chunks, in order
RECURSIVE ChunkLines(_)
ChunkLines(parts) ==
    IF parts = <<>> THEN <<>> ELSE Split(Head(parts)) \o ChunkLines(Tail(parts))

-----------------------------------------------------------------------------
(* Claims about idle chats and about commands sent while a session is pending *)

\* C19: a plain text in a chat with no pending session only shows the menu, with
\* no fetcher call and the session map unchanged for every chat; an update with
\* neither a message nor a button press sends nothing and changes nothing.
C19_IdleTextOnlyShowsMenu ==
    [][/\ (/\ MessageReceived
           /\ last'.update.cmd = ""
           /\ ~isAwaitingUsername(userState, last'.update.chat))
          => /\ last'.api = <<Menu(last'.update.chat)>>
             /\ last'.calls = <<>>
             /\ userState' = userState
       /\ (feed' < feed /\ last'.update.shape = "none")
          => /\ last'.api = <<>>
             /\ last'.calls = <<>>
             /\ userState' = userState
             /\ proc' = proc]_vars

\* C20: while a session of a menu button is pending in a chat, the next message
\* of the chat is consumed as the username even when it is a slash command: no
\* command handler runs, the command text goes to the fetcher as the username,
\* and the session is cleared.
C20_CommandConsumedWhilePending ==
    [][(/\ MessageReceived
        /\ last'.update.cmd # ""
        /\ isAwaitingUsername(userState, last'.update.chat)
        /\ Lookup(userState, last'.update.chat).PressedButton \in Kinds)
       => /\ last'.consumed
          /\ last'.dispatched = <<>>
          /\ last'.calls =
                 <<[kind |-> Lookup(userState, last'.update.chat).PressedButton,
                    username |-> last'.update.text]>>
          /\ last'.update.chat \notin DOMAIN userState']_vars

-----------------------------------------------------------------------------
(* Claims about a button press with an unknown payload *)

\* C21: a button press whose payload is none of follows, moders, vips, founders
\* is recorded as a pending session of its chat and prompted for; the text that
\* follows in the chat makes no fetcher call, is answered with an "unknown button"
\* error and then the menu, and the session is cleared.
C21_UnknownButton ==
    /\ (/\ last.handled
        /\ last.update.shape = "callback"
        /\ last.update.chat # NilRef
        /\ last.update.data \notin Kinds)
       => /\ Lookup(userState, last.update.chat) =
                 [AwaitingUsername |-> TRUE, PressedButton |-> last.update.data]
          /\ last.api[Len(last.api)] = Message(last.update.chat, "Enter the channel name:")
    /\ (HandledMessage /\ last.prior \in ButtonData \ Kinds)
       => /\ last.calls = <<>>
          /\ last.api =
                 <<Message(last.update.chat,
                           "Failed to fetch data: unknown button: " \o last.prior \o "."),
                   Menu(last.update.chat)>>
          /\ last.update.chat \notin DOMAIN userState

====
